---------------------------- MODULE Spec2Model ----------------------------
(***************************************************************************)
(* PV forecast service (src/app.py): the pydantic request models, the      *)
(* energy model calculate_advanced_pv_energy, and the two API handlers     *)
(* GET /api/geocode and POST /api/forecast.                                *)
(*                                                                         *)
(* Numbers.  The program computes in binary floating point.  The model     *)
(* computes the same expressions, in the same order, in exact rational     *)
(* arithmetic: inside the energy model a value is a pair <<n, d>> in lowest *)
(* terms with d > 0; a pandas Series holds each value as a whole number of *)
(* 1/UNITS_PER_KWH kWh, which is exact for every value the model's weather *)
(* and systems produce.                                                    *)
(* Configuration fields are carried as scaled integers:                    *)
(*   power                    kWp                                          *)
(*   inclination, azimuth     degrees                                      *)
(*   module_efficiency        percent          (18   is 0.18)              *)
(*   temperature_coefficient  1/10000 per degC (-35  is -0.0035)           *)
(*   noct                     degC                                         *)
(*   system_losses            percent          (14   is 0.14)              *)
(* Irradiance is in W/m2 and ambient temperature in degC, both integers.   *)
(***************************************************************************)
EXTENDS Integers, Sequences, FiniteSets, TLC

VARIABLES
    endpoint,          \* which handler serves the request: "forecast" | "geocode"
    pc,                \* position of the handler
    request,           \* POST /api/forecast body: [address, pv_systems]
    location,          \* what geolocator.geocode(request.address) returned
    geocoded,          \* how the geocoder call ended: "" | "found" | "none" | "raised"
    query,             \* GET /api/geocode query string (sequence of characters)
    status,            \* HTTP status of the finished request, 0 while running
    idx,               \* position of the for-loop over request.pv_systems
    total_hourly_kwh,  \* the running pd.Series of 168 values
    outcomes,          \* per processed system: what the try-block did
    weather_calls,     \* number of openmeteo.weather_api calls issued
    geocoder_calls,    \* number of geolocator.geocode calls issued
    response,          \* body of the finished response
    m_system,          \* direct call of the energy model: the PVSystem fields
    m_weather,         \* direct call: the weather arrays
    m_valid,           \* direct call: did PVSystem(...) validate
    m_energy,          \* direct call: calculate_advanced_pv_energy's result
    m_pc               \* direct call: position

vars == <<endpoint, pc, request, location, geocoded, query, status, idx, total_hourly_kwh, outcomes,
          weather_calls, geocoder_calls, response,
          m_system, m_weather, m_valid, m_energy, m_pc>>

handlerVars == <<endpoint, pc, request, location, geocoded, query, status, idx, total_hourly_kwh,
                 outcomes, weather_calls, geocoder_calls, response>>

modelVars == <<m_system, m_weather, m_valid, m_energy, m_pc>>

---------------------------------------------------------------------------
(* Program constants *)

HOURS == 168
DAYS == 7
HOURS_PER_DAY == 24
MAX_ITEMS == 3
ADDRESS_MIN_LENGTH == 3
QUERY_MIN_LENGTH == 3
STC_TEMPERATURE == 25
STC_IRRADIANCE == 1000
NOCT_REFERENCE == 20
NOCT_IRRADIANCE == 800
GEOCODE_LIMIT == 5

(* Bounds of the model *)

MaxSystems == 4        \* longest pv_systems list a client sends
MaxQueryLen == 4       \* longest autocomplete query a client sends
LenSlack == 1          \* weather arrays hold HOURS - LenSlack .. HOURS + LenSlack samples
MaxLocations == 2      \* most candidates the geocoder returns

---------------------------------------------------------------------------
(* Exact rational arithmetic *)

RECURSIVE GCD(_, _)
GCD(a, b) == IF b = 0 THEN a ELSE GCD(b, a % b)

Abs(x) == IF x < 0 THEN -x ELSE x

Rat(n, d) ==
    LET s == IF d < 0 THEN -1 ELSE 1
        g == GCD(Abs(n), Abs(d))
    IN  <<(s * n) \div g, (s * d) \div g>>

RInt(n) == <<n, 1>>
RAdd(x, y) ==
    LET g == GCD(x[2], y[2])
    IN  Rat(x[1] * (y[2] \div g) + y[1] * (x[2] \div g), (x[2] \div g) * y[2])
RNeg(x) == <<-x[1], x[2]>>
RSub(x, y) == RAdd(x, RNeg(y))
RMul(x, y) ==
    LET g1 == GCD(Abs(x[1]), y[2])
        g2 == GCD(Abs(y[1]), x[2])
    IN  Rat((x[1] \div g1) * (y[1] \div g2), (x[2] \div g2) * (y[2] \div g1))
RDiv(x, y) == RMul(x, Rat(y[2], y[1]))
RLeq(x, y) == x[1] * y[2] <= y[1] * x[2]
RAbs(x) == <<Abs(x[1]), x[2]>>
Zero == RInt(0)

(* A Series value: a whole number of 1/UNITS_PER_KWH kWh *)
UNITS_PER_KWH == 250000

ToUnits(q) ==
    IF UNITS_PER_KWH % q[2] = 0 THEN q[1] * (UNITS_PER_KWH \div q[2]) ELSE "inexact"

RECURSIVE Pow10(_)
Pow10(ndigits) == IF ndigits = 0 THEN 1 ELSE 10 * Pow10(ndigits - 1)

(* Variant: cutting the digits off, as int(x * 100) / 100 does *)
RoundDown(x, ndigits) ==
    (x \div (UNITS_PER_KWH \div Pow10(ndigits))) * (UNITS_PER_KWH \div Pow10(ndigits))

(* round(x, ndigits) of Python and numpy: to the nearest multiple of       *)
(* 10^-ndigits, a tie going to the even one.                                *)
RoundHalfEven(x, ndigits) ==
    LET step == UNITS_PER_KWH \div Pow10(ndigits)
        lo   == x \div step
        rem  == x - lo * step
        up   == \/ 2 * rem > step
                \/ (2 * rem = step /\ lo % 2 = 1)
    IN  (IF up THEN lo + 1 ELSE lo) * step

---------------------------------------------------------------------------
(* class PVSystem(BaseModel): the Field constraints *)

PVSystemValid(s) ==
    /\ s.power > 0
    /\ s.inclination >= 0 /\ s.inclination <= 90
    /\ s.azimuth >= -180 /\ s.azimuth <= 180
    /\ s.module_efficiency >= 10 /\ s.module_efficiency <= 25
    /\ s.temperature_coefficient >= -100 /\ s.temperature_coefficient <= 0
    /\ s.noct >= 40 /\ s.noct <= 50
    /\ s.system_losses >= 5 /\ s.system_losses <= 25

(* Variant: max_items one too large *)
ForecastRequestValidFour(r) ==
    /\ Len(r.address) >= ADDRESS_MIN_LENGTH
    /\ Len(r.pv_systems) <= MAX_ITEMS + 1
    /\ \A i \in 1..Len(r.pv_systems) : PVSystemValid(r.pv_systems[i])

(* class ForecastRequest(BaseModel) *)
ForecastRequestValid(r) ==
    /\ Len(r.address) >= ADDRESS_MIN_LENGTH
    /\ Len(r.pv_systems) <= MAX_ITEMS
    /\ \A i \in 1..Len(r.pv_systems) : PVSystemValid(r.pv_systems[i])

---------------------------------------------------------------------------
(* calculate_advanced_pv_energy *)

ModuleEfficiencySTC(s) == Rat(s.module_efficiency, 100)
TemperatureCoefficient(s) == Rat(s.temperature_coefficient, 10000)
SystemLosses(s) == Rat(s.system_losses, 100)

(* numpy broadcasting of two one-dimensional arrays, by their lengths *)
Broadcastable(na, nb) == na = nb \/ na = 1 \/ nb = 1
BroadcastLen(na, nb) == IF na = 1 THEN nb ELSE na
At(a, na, i) == IF na = 1 THEN a[1] ELSE a[i]

(* Step 2: T_c = T_a + ((NOCT - 20) / 800) * I_POA *)
CellTemperature(irr, temp, s) ==
    RAdd(RInt(temp), RMul(Rat(s.noct - NOCT_REFERENCE, NOCT_IRRADIANCE), RInt(irr)))

(* Step 3: eta_eff = eta_STC * (1 + gamma * (T_c - 25)) *)
EffectiveEfficiency(irr, temp, s) ==
    RMul(ModuleEfficiencySTC(s),
         RAdd(RInt(1),
              RMul(TemperatureCoefficient(s),
                   RSub(CellTemperature(irr, temp, s), RInt(STC_TEMPERATURE)))))

(* Variant: the area without the division by the efficiency *)
ModuleAreaOfPower(s) == RDiv(RInt(s.power * 1000), RInt(STC_IRRADIANCE))

(* A_mod = (power * 1000) / (eta_STC * STC_IRRADIANCE) *)
ModuleArea(s) ==
    RDiv(RInt(s.power * 1000), RMul(ModuleEfficiencySTC(s), RInt(STC_IRRADIANCE)))

(* Step 4: irradiance * module_area * module_efficiency * (1 - L) / 1000 *)
HourlyEnergy(irr, temp, s) ==
    RDiv(RMul(RMul(RMul(RInt(irr), ModuleArea(s)),
                   EffectiveEfficiency(irr, temp, s)),
              RSub(RInt(1), SystemLosses(s))),
         RInt(1000))

---------------------------------------------------------------------------
(* The two collaborators, as the handlers see them *)

(* Open-Meteo reports, per hour, the plane-of-array irradiance for the      *)
(* requested tilt and azimuth and the air temperature of the location.     *)
(* Within one request the forecast of an orientation is fixed (the client  *)
(* of line 24 even caches it); what varies per call is whether the call    *)
(* fails and how many samples each array holds.                             *)
DayOf(i) == (i - 1) \div HOURS_PER_DAY
HourOf(i) == (i - 1) % HOURS_PER_DAY
(* hours are GMT: at the site the sun is up for the second half of the GMT day *)
Daylight(i) == HourOf(i) >= 12

PoaIrradiance(tilt, azimuth, i) ==
    IF ~Daylight(i) THEN 0
    ELSE IF azimuth = 0 THEN 160 * (1 + (DayOf(i) % 5))
    ELSE 20

AirTemperature(i) == 10 + (DayOf(i) % 7)

Lengths == {0} \cup ((HOURS - LenSlack)..(HOURS + LenSlack))

(* A response: the lengths of the two arrays.  Either both hold the same   *)
(* number of samples, or the temperatures are complete and the irradiance  *)
(* array holds a single sample or is the shortest.                         *)
WeatherShapes ==
    {sh \in [irr_len : Lengths \cup {1}, temp_len : Lengths] :
        \/ sh.irr_len = sh.temp_len
        \/ sh.temp_len = HOURS /\ sh.irr_len \in {1, HOURS - LenSlack}}

FetchError == [irr_len |-> -1, temp_len |-> -1]

ArrayLengths == Lengths \cup {1}
Orientations == {<<30, 0>>, <<30, 90>>}

(* the arrays a response carries, built once per orientation and length *)
IrradianceArrays ==
    [o \in Orientations |->
        [n \in ArrayLengths |-> [i \in 1..n |-> PoaIrradiance(o[1], o[2], i)]]]
TemperatureArrays == [n \in ArrayLengths |-> [i \in 1..n |-> AirTemperature(i)]]

IrradianceArray(system, sh) ==
    IrradianceArrays[<<system.inclination, system.azimuth>>][sh.irr_len]
TemperatureArray(sh) == TemperatureArrays[sh.temp_len]

BestMatch == [address |-> "Marienplatz", latitude |-> 48, longitude |-> 11]
Locations == {BestMatch, [address |-> "Marienplatz 2", latitude |-> 49, longitude |-> 12]}

---------------------------------------------------------------------------
(* What clients send *)

DefaultSystem ==
    [power |-> 5, inclination |-> 30, azimuth |-> 0, module_efficiency |-> 18,
     temperature_coefficient |-> -35, noct |-> 45, system_losses |-> 14]

EastSystem ==
    [power |-> 5, inclination |-> 30, azimuth |-> 90, module_efficiency |-> 20,
     temperature_coefficient |-> 0, noct |-> 45, system_losses |-> 13]

(* the system of the specification's worked example *)
STCExample ==
    [power |-> 5, inclination |-> 30, azimuth |-> 0, module_efficiency |-> 20,
     temperature_coefficient |-> 0, noct |-> 45, system_losses |-> 0]

SentSystems == {DefaultSystem, EastSystem, STCExample}

SeqsUpTo(S, n) == UNION {[1..k -> S] : k \in 0..n}

Addresses == {[i \in 1..k |-> "a"] : k \in (ADDRESS_MIN_LENGTH - 1)..ADDRESS_MIN_LENGTH}

Requests == [address : Addresses, pv_systems : SeqsUpTo(SentSystems, MaxSystems)]

Queries == SeqsUpTo({" ", "a"}, MaxQueryLen)

(* Direct calls of the energy model: the field values tried, in and out of *)
(* the ranges PVSystem accepts, and constant weather                        *)
ModelSystems ==
    [power : {1, 5}, inclination : {30}, azimuth : {0},
     module_efficiency : {10, 20, 25},
     temperature_coefficient : {-35, 0},
     noct : {40, 45, 50},
     system_losses : {0, 5, 14, 25}]

ModelWeathers == [irradiance : {0, STC_IRRADIANCE}, temperature : {STC_TEMPERATURE, 35}]

ConstantArrays ==
    [v \in {w.irradiance : w \in ModelWeathers} \cup {w.temperature : w \in ModelWeathers} |->
        [i \in 1..HOURS |-> v]]
ConstantArray(v) == ConstantArrays[v]

---------------------------------------------------------------------------
(* calculate_advanced_pv_energy on arrays *)

IrradianceLevels ==
    {PoaIrradiance(o[1], o[2], i) : o \in Orientations, i \in 1..(HOURS + LenSlack)}
    \cup {w.irradiance : w \in ModelWeathers}

TemperatureLevels ==
    {AirTemperature(i) : i \in 1..(HOURS + LenSlack)}
    \cup {w.temperature : w \in ModelWeathers}

(* HourlyEnergy of the systems clients send, computed once per system,     *)
(* irradiance and temperature                                              *)
HourlyEnergyTable ==
    [s \in SentSystems |->
        [irr \in IrradianceLevels |->
            [temp \in TemperatureLevels |-> HourlyEnergy(irr, temp, s)]]]

HourlyEnergyOf(irr, temp, s) ==
    IF s \in SentSystems THEN HourlyEnergyTable[s][irr][temp]
    ELSE HourlyEnergy(irr, temp, s)

(* The whole function: a ValueError when the two arrays do not broadcast,  *)
(* else one value per position of the broadcast shape.                     *)
calculate_advanced_pv_energy(irradiance, ambient_temp, system) ==
    LET ni == Len(irradiance)
        nt == Len(ambient_temp)
    IN  IF ~Broadcastable(ni, nt)
        THEN [error |-> "ValueError", values |-> <<>>]
        ELSE [error |-> "",
              values |-> [i \in 1..BroadcastLen(ni, nt) |->
                            HourlyEnergyOf(At(irradiance, ni, i),
                                           At(ambient_temp, nt, i), system)]]

---------------------------------------------------------------------------
(* POST /api/forecast: the pieces of the loop body and of the response *)

ZeroSeries == [i \in 1..HOURS |-> 0]

(* Variant: reindex(range(168), method="ffill"), the last value repeated *)
ReindexForwardFill(values) ==
    LET n == Len(values)
    IN  [i \in 1..HOURS |-> IF i <= n THEN ToUnits(values[i])
                            ELSE IF n > 0 THEN ToUnits(values[n]) ELSE 0]

(* pd.Series(hourly_kwh).reindex(range(168), fill_value=0.0) *)
Reindex(values) ==
    LET n == Len(values)
    IN  [i \in 1..HOURS |-> IF i <= n THEN ToUnits(values[i]) ELSE 0]

(* Variant: total_hourly_kwh = series_kwh *)
AssignSeries(total, series) == [i \in 1..HOURS |-> series[i]]

(* total_hourly_kwh += series_kwh *)
AddSeries(total, series) == [i \in 1..HOURS |-> total[i] + series[i]]

(* The try block for one system: the record of what it did.  error is ""   *)
(* when the block ran to its end, and then series is series_kwh.           *)
TryBlock(system, sh) ==
    IF sh = FetchError
    THEN [shape |-> sh, error |-> "weather_api", series |-> <<>>]
    ELSE LET hourly_kwh == calculate_advanced_pv_energy(
                               IrradianceArray(system, sh), TemperatureArray(sh), system)
         IN  IF hourly_kwh.error # ""
             THEN [shape |-> sh, error |-> hourly_kwh.error, series |-> <<>>]
             ELSE [shape |-> sh, error |-> "", series |-> Reindex(hourly_kwh.values)]

(* The running total after the loop body: unchanged when the block raised  *)
TotalAfter(total, outcome) ==
    IF outcome.error # "" THEN total ELSE AddSeries(total, outcome.series)

(* Variant: except Exception: ... break *)
BreakAfterException(i, n) == n + 1

(* except Exception: ... continue *)
AfterException(i, n) == i + 1

(* The whole for-loop from position i on, as a function of the systems and *)
(* of the response each weather call gets                                  *)
RECURSIVE LoopFrom(_, _, _, _)
LoopFrom(systems, shapes, i, total) ==
    IF i > Len(systems) THEN total
    ELSE LoopFrom(systems, shapes,
                  IF TryBlock(systems[i], shapes[i]).error # ""
                  THEN AfterException(i, Len(systems)) ELSE i + 1,
                  TotalAfter(total, TryBlock(systems[i], shapes[i])))

(* Series.sum() over positions lo..hi, added pairwise as numpy adds *)
RECURSIVE SumRange(_, _, _)
SumRange(s, lo, hi) ==
    IF lo > hi THEN 0
    ELSE IF lo = hi THEN s[lo]
    ELSE LET mid == (lo + hi) \div 2
         IN  SumRange(s, lo, mid) + SumRange(s, mid + 1, hi)

(* total_hourly_kwh[start_hour:end_hour].sum(), positions counted from 0 *)
SliceSum(s, start_hour, end_hour) == SumRange(s, start_hour + 1, end_hour)

(* Variant: the hours rounded before they are added *)
DailyTotalsOfRoundedHours(total) ==
    [d \in 1..DAYS |->
        LET start_hour == (d - 1) * HOURS_PER_DAY
            end_hour   == start_hour + HOURS_PER_DAY
        IN  RoundHalfEven(SliceSum([i \in 1..HOURS |-> RoundHalfEven(total[i], 2)],
                                   start_hour, end_hour), 2)]

DailyTotals(total) ==
    [d \in 1..DAYS |->
        LET start_hour == (d - 1) * HOURS_PER_DAY
            end_hour   == start_hour + HOURS_PER_DAY
        IN  RoundHalfEven(SliceSum(total, start_hour, end_hour), 2)]

ForecastResponse(loc, total) ==
    LET daily_totals == DailyTotals(total)
    IN  [latitude |-> loc.latitude,
         longitude |-> loc.longitude,
         hourly_forecast_kwh |-> [i \in 1..Len(total) |-> RoundHalfEven(total[i], 2)],
         daily_totals_kwh |-> daily_totals,
         total_daily_kwh |-> RoundHalfEven(daily_totals[1], 2)]

(* str.strip() over the two characters of the model, " " and "a" *)
RECURSIVE LStrip(_)
LStrip(s) == IF s # <<>> /\ Head(s) = " " THEN LStrip(Tail(s)) ELSE s
RECURSIVE RStrip(_)
RStrip(s) ==
    IF s # <<>> /\ s[Len(s)] = " " THEN RStrip(SubSeq(s, 1, Len(s) - 1)) ELSE s
Strip(s) == RStrip(LStrip(s))

(* Variant: the comparison off by one *)
QueryTooShortByOne(q) == Len(Strip(q)) < QUERY_MIN_LENGTH - 1

(* GET /api/geocode: is the geocoder asked at all *)
QueryTooShort(q) == Len(Strip(q)) < QUERY_MIN_LENGTH

Suggestions(locations) ==
    [i \in 1..Len(locations) |->
        [address |-> locations[i].address,
         latitude |-> locations[i].latitude,
         longitude |-> locations[i].longitude]]

---------------------------------------------------------------------------
NoRequest == [address |-> <<>>, pv_systems |-> <<>>]
NoLocation == [address |-> "", latitude |-> 0, longitude |-> 0]
NoResponse == [detail |-> ""]
NoSystem ==
    [power |-> 0, inclination |-> 0, azimuth |-> 0, module_efficiency |-> 0,
     temperature_coefficient |-> 0, noct |-> 0, system_losses |-> 0]
NoWeather == [irradiance |-> 0, temperature |-> 0]
NoEnergy == [error |-> "", values |-> <<>>]

ModelIdle ==
    /\ m_system = NoSystem
    /\ m_weather = NoWeather
    /\ m_valid = FALSE
    /\ m_energy = NoEnergy
    /\ m_pc = "idle"

Init ==
    /\ endpoint \in {"forecast", "geocode"}
    /\ pc = "received"
    /\ IF endpoint = "forecast"
       THEN request \in Requests /\ query = <<>>
       ELSE request = NoRequest /\ query \in Queries
    /\ location = NoLocation
    /\ geocoded = ""
    /\ status = 0
    /\ idx = 0
    /\ total_hourly_kwh = <<>>
    /\ outcomes = <<>>
    /\ weather_calls = 0
    /\ geocoder_calls = 0
    /\ response = NoResponse
    /\ ModelIdle

---------------------------------------------------------------------------
(* POST /api/forecast *)

(* FastAPI validates the body against ForecastRequest before the handler   *)
(* runs, and answers 422 itself when it does not validate.                 *)
ValidateRequest ==
    /\ endpoint = "forecast" /\ pc = "received"
    /\ IF ForecastRequestValid(request)
       THEN pc' = "geocode" /\ UNCHANGED <<status, response>>
       ELSE /\ pc' = "done"
            /\ status' = 422
            /\ response' = [detail |-> "validation"]
    /\ UNCHANGED <<endpoint, request, location, geocoded, query, idx, total_hourly_kwh,
                   outcomes, weather_calls, geocoder_calls>>
    /\ UNCHANGED modelVars

(* lines 148-164, the geocoder found the address *)
GeocodeFound ==
    /\ endpoint = "forecast" /\ pc = "geocode"
    /\ \E loc \in {BestMatch} :
         /\ location' = loc
         /\ geocoded' = "found"
         /\ geocoder_calls' = geocoder_calls + 1
         /\ total_hourly_kwh' = ZeroSeries
         /\ idx' = 1
         /\ pc' = "loop"
    /\ UNCHANGED <<endpoint, request, query, status, outcomes, weather_calls, response>>
    /\ UNCHANGED modelVars

(* Variant: without "except HTTPException: raise" the 404 is caught by    *)
(* "except Exception" and leaves as a 500                                  *)
GeocodeNotFoundRewrapped ==
    /\ endpoint = "forecast" /\ pc = "geocode"
    /\ geocoder_calls' = geocoder_calls + 1
    /\ geocoded' = "none"
    /\ status' = 500
    /\ response' = [detail |-> "Geocoding failed"]
    /\ pc' = "done"
    /\ UNCHANGED <<endpoint, request, location, query, idx, total_hourly_kwh,
                   outcomes, weather_calls>>
    /\ UNCHANGED modelVars

(* lines 150-156, geocode returned None *)
GeocodeNotFound ==
    /\ endpoint = "forecast" /\ pc = "geocode"
    /\ geocoder_calls' = geocoder_calls + 1
    /\ geocoded' = "none"
    /\ status' = 404
    /\ response' = [detail |-> "Address not found"]
    /\ pc' = "done"
    /\ UNCHANGED <<endpoint, request, location, query, idx, total_hourly_kwh,
                   outcomes, weather_calls>>
    /\ UNCHANGED modelVars

(* lines 157-159, geocode raised *)
GeocodeRaises ==
    /\ endpoint = "forecast" /\ pc = "geocode"
    /\ geocoder_calls' = geocoder_calls + 1
    /\ geocoded' = "raised"
    /\ status' = 500
    /\ response' = [detail |-> "Geocoding failed"]
    /\ pc' = "done"
    /\ UNCHANGED <<endpoint, request, location, query, idx, total_hourly_kwh,
                   outcomes, weather_calls>>
    /\ UNCHANGED modelVars

(* lines 166-201, one pass of the loop body, the weather call returning *)
ProcessSystem ==
    /\ endpoint = "forecast" /\ pc = "loop" /\ idx <= Len(request.pv_systems)
    /\ \E sh \in WeatherShapes :
         LET outcome == TryBlock(request.pv_systems[idx], sh)
         IN  /\ weather_calls' = weather_calls + 1
             /\ outcomes' = Append(outcomes, outcome)
             /\ total_hourly_kwh' = TotalAfter(total_hourly_kwh, outcome)
             /\ idx' = IF outcome.error # ""
                       THEN AfterException(idx, Len(request.pv_systems))
                       ELSE idx + 1
    /\ UNCHANGED <<endpoint, pc, request, location, geocoded, query, status, geocoder_calls,
                   response>>
    /\ UNCHANGED modelVars

(* lines 166-201, one pass of the loop body, the weather call raising *)
ProcessSystemFetchFails ==
    /\ endpoint = "forecast" /\ pc = "loop" /\ idx <= Len(request.pv_systems)
    /\ LET outcome == TryBlock(request.pv_systems[idx], FetchError)
       IN  /\ weather_calls' = weather_calls + 1
           /\ outcomes' = Append(outcomes, outcome)
           /\ total_hourly_kwh' = TotalAfter(total_hourly_kwh, outcome)
           /\ idx' = AfterException(idx, Len(request.pv_systems))
    /\ UNCHANGED <<endpoint, pc, request, location, geocoded, query, status, geocoder_calls,
                   response>>
    /\ UNCHANGED modelVars

(* lines 203-217 *)
BuildResponse ==
    /\ endpoint = "forecast" /\ pc = "loop" /\ idx > Len(request.pv_systems)
    /\ response' = ForecastResponse(location, total_hourly_kwh)
    /\ status' = 200
    /\ pc' = "done"
    /\ UNCHANGED <<endpoint, request, location, geocoded, query, idx, total_hourly_kwh,
                   outcomes, weather_calls, geocoder_calls>>
    /\ UNCHANGED modelVars

---------------------------------------------------------------------------
(* GET /api/geocode *)

(* lines 120-121 *)
GeocodeShortQuery ==
    /\ endpoint = "geocode" /\ pc = "received"
    /\ QueryTooShort(query)
    /\ response' = [suggestions |-> <<>>]
    /\ status' = 200
    /\ pc' = "done"
    /\ UNCHANGED <<endpoint, request, location, geocoded, query, idx, total_hourly_kwh,
                   outcomes, weather_calls, geocoder_calls>>
    /\ UNCHANGED modelVars

(* lines 123-139, the geocoder answering with a list, possibly empty *)
GeocodeSuggest ==
    /\ endpoint = "geocode" /\ pc = "received"
    /\ ~QueryTooShort(query)
    /\ \E locations \in SeqsUpTo(Locations, MaxLocations) :
         /\ Len(locations) <= GEOCODE_LIMIT
         /\ response' = [suggestions |-> IF locations = <<>> THEN <<>>
                                         ELSE Suggestions(locations)]
         /\ geocoded' = IF locations = <<>> THEN "none" ELSE "found"
    /\ geocoder_calls' = geocoder_calls + 1
    /\ status' = 200
    /\ pc' = "done"
    /\ UNCHANGED <<endpoint, request, location, query, idx, total_hourly_kwh,
                   outcomes, weather_calls>>
    /\ UNCHANGED modelVars

(* lines 141-143, the geocoder raising *)
GeocodeSwallow ==
    /\ endpoint = "geocode" /\ pc = "received"
    /\ ~QueryTooShort(query)
    /\ response' = [suggestions |-> <<>>]
    /\ geocoder_calls' = geocoder_calls + 1
    /\ geocoded' = "raised"
    /\ status' = 200
    /\ pc' = "done"
    /\ UNCHANGED <<endpoint, request, location, query, idx, total_hourly_kwh,
                   outcomes, weather_calls>>
    /\ UNCHANGED modelVars

Next ==
    \/ ValidateRequest
    \/ GeocodeFound
    \/ GeocodeNotFound
    \/ GeocodeRaises
    \/ ProcessSystem
    \/ ProcessSystemFetchFails
    \/ BuildResponse
    \/ GeocodeShortQuery
    \/ GeocodeSuggest
    \/ GeocodeSwallow

Spec == Init /\ [][Next]_vars

---------------------------------------------------------------------------
(* The energy model called directly, as a unit test calls it *)

DirectCall(system, weather) ==
    calculate_advanced_pv_energy(ConstantArray(weather.irradiance),
                                 ConstantArray(weather.temperature), system)

InitModel ==
    /\ endpoint = "model"
    /\ pc = "idle"
    /\ request = NoRequest /\ query = <<>>
    /\ location = NoLocation
    /\ geocoded = ""
    /\ status = 0
    /\ idx = 0
    /\ total_hourly_kwh = <<>>
    /\ outcomes = <<>>
    /\ weather_calls = 0
    /\ geocoder_calls = 0
    /\ response = NoResponse
    /\ m_system \in ModelSystems
    /\ m_weather \in ModelWeathers
    /\ m_valid = FALSE
    /\ m_energy = NoEnergy
    /\ m_pc = "start"

(* Constructing a PVSystem from the fields: the Field constraints decide *)
ConstructPVSystem ==
    /\ m_pc = "start"
    /\ m_valid' = PVSystemValid(m_system)
    /\ m_pc' = "constructed"
    /\ UNCHANGED <<m_system, m_weather, m_energy>>
    /\ UNCHANGED handlerVars

(* calculate_advanced_pv_energy(irradiance, ambient_temp, system), on the  *)
(* field values whether or not PVSystem accepted them                      *)
CallEnergyModel ==
    /\ m_pc = "constructed"
    /\ m_energy' = DirectCall(m_system, m_weather)
    /\ m_pc' = "called"
    /\ UNCHANGED <<m_system, m_weather, m_valid>>
    /\ UNCHANGED handlerVars

NextModel == ConstructPVSystem \/ CallEnergyModel

SpecModel == InitModel /\ [][NextModel]_vars

---------------------------------------------------------------------------
(* Properties *)

Forecast == endpoint = "forecast"
Accepted == Forecast /\ pc # "received" /\ status # 422
Completed == Forecast /\ pc = "done" /\ status = 200
Systems == request.pv_systems
Raised(i) == outcomes[i].error # ""
MismatchedShape(sh) == sh # FetchError /\ sh.irr_len # sh.temp_len

(* the sum, at hour h, of the series of the systems among the first k whose *)
(* try block ran to its end                                                 *)
RECURSIVE SurvivorSum(_, _)
SurvivorSum(k, h) ==
    IF k = 0 THEN 0
    ELSE SurvivorSum(k - 1, h) + (IF Raised(k) THEN 0 ELSE outcomes[k].series[h])

(* C1: once the address is geocoded, whatever subset of the systems raises *)
(* in the weather call or in the computation, every system is still        *)
(* fetched in turn, a raising system adds nothing to any hour, the running *)
(* total is the hour-by-hour sum of the other systems' series, and the     *)
(* request ends with status 200 carrying that total.                       *)
C1_PartialFailure ==
    (Forecast /\ geocoded = "found") =>
        /\ idx <= Len(Systems) + 1
        /\ Len(outcomes) = idx - 1
        /\ weather_calls = idx - 1
        /\ \A h \in 1..HOURS : total_hourly_kwh[h] = SurvivorSum(Len(outcomes), h)
        /\ pc = "done" =>
             /\ status = 200
             /\ Len(outcomes) = Len(Systems)
             /\ \A h \in 1..HOURS :
                  response.hourly_forecast_kwh[h] =
                      RoundHalfEven(SurvivorSum(Len(Systems), h), 2)

(* a finished request of three systems: the weather call of the first      *)
(* raised, the computation of the second raised, the third survived        *)
C1_Witness ==
    /\ Completed
    /\ Len(outcomes) = 3
    /\ outcomes[1].error = "weather_api"
    /\ outcomes[2].error = "ValueError"
    /\ outcomes[3].error = ""
    /\ total_hourly_kwh = outcomes[3].series
    /\ total_hourly_kwh[HOURS] > 0

(* C2: in POST /api/forecast a geocoder that finds nothing ends the        *)
(* request with 404 and a geocoder that raises ends it with 500, and in    *)
(* both cases no weather call was issued.                                  *)
C2_GeocodeFailFast ==
    Forecast =>
        /\ geocoded = "none" => (pc = "done" /\ status = 404 /\ weather_calls = 0)
        /\ geocoded = "raised" => (pc = "done" /\ status = 500 /\ weather_calls = 0)
        /\ status \in {404, 500} => (weather_calls = 0 /\ outcomes = <<>>)

C2_Witness ==
    /\ Forecast /\ pc = "done" /\ status = 500 /\ geocoded = "raised"
    /\ Len(Systems) = MAX_ITEMS
    /\ weather_calls = 0

C8_GeocodeNeverErrors ==
    endpoint = "geocode" =>
        /\ Len(query) < QUERY_MIN_LENGTH => (geocoder_calls = 0 /\ geocoded = "")
        /\ pc = "done" =>
             /\ status = 200
             /\ DOMAIN response = {"suggestions"}
             /\ Len(query) < QUERY_MIN_LENGTH => response.suggestions = <<>>
             /\ geocoded \in {"none", "raised"} => response.suggestions = <<>>
             /\ geocoded = "found" => Len(response.suggestions) >= 1

C8_Witness ==
    /\ endpoint = "geocode" /\ pc = "done"
    /\ Len(query) = QUERY_MIN_LENGTH - 1
    /\ Len(Strip(query)) = QUERY_MIN_LENGTH - 1
    /\ geocoder_calls = 0
    /\ response = [suggestions |-> <<>>]

(* the values at positions lo..hi added one after the other *)
RECURSIVE HoursSum(_, _, _)
HoursSum(s, lo, hi) == IF lo > hi THEN 0 ELSE s[lo] + HoursSum(s, lo + 1, hi)

(* C4: a finished forecast has exactly 7 daily totals; the total of day d  *)
(* (0..6) is the sum of the unrounded combined series over positions       *)
(* 24d..24d+23, rounded to 2 decimals once; total_daily_kwh is the first.  *)
C4_DailyTotals ==
    Completed =>
        /\ DOMAIN response.daily_totals_kwh = 1..DAYS
        /\ \A d \in 0..(DAYS - 1) :
             response.daily_totals_kwh[d + 1] =
                 RoundHalfEven(HoursSum(total_hourly_kwh, HOURS_PER_DAY * d + 1,
                                        HOURS_PER_DAY * d + HOURS_PER_DAY), 2)
        /\ response.total_daily_kwh = response.daily_totals_kwh[1]

(* a forecast whose days differ, and where adding the rounded hours of the *)
(* first day would give another total than rounding their sum              *)
C4_Witness ==
    /\ Completed
    /\ response.daily_totals_kwh[1] # response.daily_totals_kwh[2]
    /\ response.daily_totals_kwh[1] > 0
    /\ response.daily_totals_kwh[1] #
           HoursSum(response.hourly_forecast_kwh, 1, HOURS_PER_DAY)

(* the 168 unrounded hours added up, a day at a time *)
RECURSIVE FirstDaysSum(_)
FirstDaysSum(d) ==
    IF d = 0 THEN 0
    ELSE FirstDaysSum(d - 1)
         + HoursSum(total_hourly_kwh, HOURS_PER_DAY * (d - 1) + 1, HOURS_PER_DAY * d)

WeekSum == FirstDaysSum(DAYS)
DailySum == HoursSum(response.daily_totals_kwh, 1, DAYS)

(* C5 as stated: the 7 returned daily totals add up to the sum of the      *)
(* unrounded 168 hours within 0.02 kWh.                                    *)
C5_WithinTwoHundredths ==
    Completed => 100 * Abs(DailySum - WeekSum) <= 2 * UNITS_PER_KWH

(* C5 as amended: within 0.035 kWh, half a hundredth for each of the 7     *)
(* days.                                                                   *)
C5_WithinHalfHundredthPerDay ==
    Completed => 2 * 100 * Abs(DailySum - WeekSum) <= DAYS * UNITS_PER_KWH

C5_Witness ==
    /\ Completed
    /\ 100 * Abs(DailySum - WeekSum) > 2 * UNITS_PER_KWH

Perms(n) == {p \in [1..n -> 1..n] : \A i, j \in 1..n : i # j => p[i] # p[j]}

(* C6: running the loop over the systems of a finished request in any      *)
(* other order, each system keeping the weather response it got, gives the *)
(* same combined hourly series and the same daily totals.                  *)
C6_OrderIndependent ==
    Completed =>
        \A p \in Perms(Len(Systems)) :
            \A t \in {LoopFrom([i \in 1..Len(Systems) |-> Systems[p[i]]],
                               [i \in 1..Len(Systems) |-> outcomes[p[i]].shape],
                               1, ZeroSeries)} :
                /\ t = total_hourly_kwh
                /\ DailyTotals(t) = response.daily_totals_kwh

(* three systems: two different ones with a complete series, one of them   *)
(* with a short series, and one that raised                                *)
C6_Witness ==
    /\ Completed
    /\ Len(Systems) = 3
    /\ Systems[1] # Systems[3]
    /\ outcomes[1].error = "" /\ outcomes[1].shape.irr_len = HOURS
    /\ Raised(2)
    /\ outcomes[3].error = "" /\ outcomes[3].shape.irr_len < HOURS
    /\ outcomes[3].series[1 + HOURS_PER_DAY \div 2] > 0

(* C9: whenever the two arrays of a weather response differ in length the  *)
(* computation fails with an error, and the request does not end as a      *)
(* successful forecast.                                                     *)
C9_MismatchFailsLoudly ==
    Forecast =>
        \A i \in 1..Len(outcomes) :
            MismatchedShape(outcomes[i].shape) =>
                (outcomes[i].error # "" /\ ~Completed)

(* C10: the series a system adds has exactly 168 positions: the computed   *)
(* values up to the length of the computed array, zeros after it, without  *)
(* an error; the running total and the returned hourly series have 168     *)
(* positions throughout.                                                   *)
C10_ReindexedTo168 ==
    Forecast =>
        /\ geocoded = "found" => DOMAIN total_hourly_kwh = 1..HOURS
        /\ Completed => DOMAIN response.hourly_forecast_kwh = 1..HOURS
        /\ \A i \in 1..Len(outcomes) :
             /\ (outcomes[i].shape # FetchError
                   /\ outcomes[i].shape.irr_len = outcomes[i].shape.temp_len) =>
                     outcomes[i].error = ""
             /\ outcomes[i].error = "" =>
                 \A computed \in {calculate_advanced_pv_energy(
                                      IrradianceArray(Systems[i], outcomes[i].shape),
                                      TemperatureArray(outcomes[i].shape),
                                      Systems[i]).values} :
                     /\ DOMAIN outcomes[i].series = 1..HOURS
                     /\ \A h \in 1..HOURS :
                          outcomes[i].series[h] =
                              IF h <= Len(computed) THEN ToUnits(computed[h]) ELSE 0

(* a short, a long and an empty array in one request *)
C10_Witness ==
    /\ Completed
    /\ Len(outcomes) = 3
    /\ outcomes[1].shape = [irr_len |-> HOURS - 1, temp_len |-> HOURS - 1]
    /\ outcomes[1].series[HOURS - 1] > 0 /\ outcomes[1].series[HOURS] = 0
    /\ outcomes[2].shape = [irr_len |-> HOURS + 1, temp_len |-> HOURS + 1]
    /\ outcomes[2].series[HOURS] > 0
    /\ outcomes[3].shape = [irr_len |-> 0, temp_len |-> 0]
    /\ outcomes[3].error = "" /\ outcomes[3].series = ZeroSeries
    /\ total_hourly_kwh[HOURS] = outcomes[2].series[HOURS]

---------------------------------------------------------------------------
(* Properties of the energy model called directly *)

STCWeather == [irradiance |-> STC_IRRADIANCE, temperature |-> STC_TEMPERATURE]
NoDerate == m_system.temperature_coefficient = 0
Called == m_pc = "called"

(* C7 as stated: with no temperature coefficient and no losses, at 1000    *)
(* W/m2 and 25 degC the model returns the rated power every hour, and such *)
(* a system is one PVSystem accepts.                                       *)
C7_RatedPowerAtSTC ==
    (Called /\ m_weather = STCWeather /\ NoDerate /\ m_system.system_losses = 0) =>
        /\ \A i \in 1..HOURS : m_energy.values[i] = RInt(m_system.power)
        /\ m_valid

(* C7 as amended: with no temperature coefficient, at 1000 W/m2 and 25     *)
(* degC the model returns power * (1 - system_losses) every hour, whatever *)
(* the module efficiency and the NOCT; that is the rated power for losses  *)
(* of 0, which PVSystem rejects: a system it accepts has losses of at      *)
(* least 0.05 and yields at most 0.95 of its rated power.                  *)
C7_RatedPowerLessLosses ==
    (Called /\ m_weather = STCWeather /\ NoDerate) =>
        /\ m_energy.error = ""
        /\ DOMAIN m_energy.values = 1..HOURS
        /\ \A i \in 1..HOURS :
             m_energy.values[i] =
                 Rat(m_system.power * (100 - m_system.system_losses), 100)
        /\ m_system.system_losses = 0 => ~m_valid
        /\ m_valid =>
             \A i \in 1..HOURS :
                 RLeq(m_energy.values[i], Rat(m_system.power * 95, 100))

C7_Witness ==
    /\ Called
    /\ m_system = STCExample
    /\ m_weather = STCWeather
    /\ m_energy.values[1] = RInt(5)
    /\ ~m_valid

====
